---- MODULE Spec2Model ----
(***************************************************************************)
(* The snapshot-diff polling engine of FunPayClient: startPolling,         *)
(* stopPolling and checkOnce, with the accessors they await.  The          *)
(* repository holds two variants of the client: src/src/FunPayClient.ts    *)
(* ("main") and src/unnamed/part_001 ("part001").  Their polling code      *)
(* differs in how a failed fetch surfaces (empty page against a thrown     *)
(* error) and in what the bootstrap's catch does; both are modelled, and   *)
(* an engine is constructed from one of them.                              *)
(*                                                                         *)
(* Every await of the code is a suspension point: an action is the         *)
(* synchronous code that runs from one await to the next.                  *)
(***************************************************************************)
EXTENDS Integers, Sequences, FiniteSets, TLC

\* ---------------------------------------------------------------- bounds
MaxLoops == 2       \* startPolling calls that get past the polling guard
MaxBatch == 2       \* records on one fetched page

\* ------------------------------------------------------- program constants
DefaultPollingIntervalMs == 15000

\* ---------------------------------------------------------------- domains
Variants == {"main", "part001"}
OrderIds == {"1", "2"}
Statuses == {"new", "paid"}
Prices == {10, 20}
ChatIds == {1, 2}
Dates == {"d1", "d2"}
IntervalArgs == {0, 5000}      \* 0 stands for an omitted intervalMs argument

\* IOrder, reduced to its key, its status and one other field
IOrder == [id : OrderIds, status : Statuses, price : Prices]
\* IChat / IChatMessage, reduced to the key and one other field
IChat == [id : ChatIds, date : Dates]

SeqsUpTo(S, n) == UNION {[1..k -> S] : k \in 0..n}
\* the orders and chats the pages of a run are made of: a new order, its
\* status change, its price change, a second order; a chat, its later
\* activity, a second chat
SomeOrders == {[id |-> "1", status |-> "new", price |-> 10],
               [id |-> "1", status |-> "paid", price |-> 10],
               [id |-> "1", status |-> "new", price |-> 20],
               [id |-> "2", status |-> "new", price |-> 10]}
SomeChats == {[id |-> 1, date |-> "d1"], [id |-> 1, date |-> "d2"],
              [id |-> 2, date |-> "d1"]}
OrderPages == SeqsUpTo(SomeOrders, MaxBatch)
ChatPages == SeqsUpTo(SomeChats, MaxBatch)
\* the text of the balance element of a page ("" when the element is absent)
BalanceTexts == {"", "n/a", "0", "100", "200"}

\* a JavaScript number: NaN or a value
NaN == [isNaN |-> TRUE, v |-> 0]
Num(n) == [isNaN |-> FALSE, v |-> n]
\* a !== b on numbers: NaN differs from everything, itself included
StrictNeq(a, b) == a.isNaN \/ b.isNaN \/ a.v # b.v
Truthy(a) == ~a.isNaN /\ a.v # 0

parseFloat(t) ==
  CASE t = "0" -> Num(0)
    [] t = "100" -> Num(100)
    [] t = "200" -> Num(200)
    [] OTHER -> NaN

\* what the transport hands back for one request
FetchFailures == {"http", "network"}
Failed(kind) == [ok |-> FALSE, kind |-> kind, page |-> <<>>]
Page(c) == [ok |-> TRUE, kind |-> "", page |-> c]
Responses(Pages, failures) == {Failed(k) : k \in failures} \cup {Page(c) : c \in Pages}

\* the outcome of a call: a returned value or a thrown error
Return(v) == [threw |-> FALSE, val |-> v, err |-> ""]
Throw(e) == [threw |-> TRUE, val |-> <<>>, err |-> e]

VARIABLES
  variant,         \* which of the two client sources the engine is built from
  polling,         \* this.polling
  lastOrders,      \* this.lastOrders: a Map, as a function on its keys
  lastMessages,    \* this.lastMessages
  lastBalance,     \* this.lastBalance
  errorListeners,  \* whether an 'error' listener is registered
  loops,           \* the startPolling invocations: where each is suspended
  timers,          \* the loops with a pending setTimeout
  last,            \* the latest step
  newOrderCount    \* history: emit('newOrder') calls so far, per order id

vars == <<variant, polling, lastOrders, lastMessages, lastBalance,
          errorListeners, loops, timers, last, newOrderCount>>

LoopIds == 1..MaxLoops
\* atStart is history: the stored balance when the cycle in progress called
\* getBalance (kept while that call is pending)
NoLoop == [pc |-> "none", interval |-> 0, atStart |-> Num(0), evt |-> "none"]
Started == {l \in LoopIds : loops[l].pc # "none"}
Active == {l \in LoopIds : loops[l].pc \in {"boot", "balance", "orders", "chats", "sleep"}}

\* a step: the operation, its loop (0: none), what the transport answered,
\* what the accessor made of it, and the emit calls of the step in order
NoFetch == [ok |-> FALSE, kind |-> "none", page |-> <<>>]
Call(op, l) ==
  [op |-> op, loop |-> l, resp |-> NoFetch, ret |-> Return(<<>>), events |-> <<>>]
Step(op, l, resp, ret, evs) ==
  [op |-> op, loop |-> l, resp |-> resp, ret |-> ret, events |-> evs]

\* ------------------------------------------------------------ transport
HttpError(path) == [name |-> "Error", url |-> path]
NetworkError == [name |-> "AbortError", url |-> ""]
TypeError == [name |-> "TypeError", url |-> ""]

\* part_001: fetchHtml throws on a non-ok status and on a rejected fetch
fetchHtml(path, resp) ==
  IF resp.ok THEN Return(resp.page)
  ELSE IF resp.kind = "http" THEN Throw(HttpError(path)) ELSE Throw(NetworkError)

\* main: fetchOrders / fetchChats / fetchBalance catch everything and hand
\* back '', a page with no items and no balance element
fetchOrders(resp) == IF resp.ok THEN resp.page ELSE <<>>
fetchChats(resp) == IF resp.ok THEN resp.page ELSE <<>>
fetchBalance(resp) == IF resp.ok THEN resp.page ELSE ""

\* ------------------------------------------------------------ accessors
getOrders(resp) == Return(fetchOrders(resp))

getOrders_part001(resp) == fetchHtml("/orders/trade", resp)

\* main: every chat item needs the author link of its thread page;
\* getProfile(undefined) throws a TypeError when the link is missing
getChats(resp, authorLinks) ==
  LET chats == fetchChats(resp)
  IN  IF chats # <<>> /\ ~authorLinks THEN Throw(TypeError) ELSE Return(chats)

getChats_part001(resp) == fetchHtml("/chats", resp)

getBalance(resp) == Return(parseFloat(fetchBalance(resp)))

\* part_001: the balance field of getProfile(): undefined for an empty text
getProfile_part001(resp) ==
  LET h == fetchHtml("/", resp)
  IN  IF h.threw THEN h
      ELSE Return([defined |-> h.val # "", balance |-> parseFloat(h.val)])

getBalance_part001(resp, profileResp) ==
  LET h == fetchHtml("/account/finance", resp)
  IN  IF ~h.threw
      THEN LET v == parseFloat(h.val) IN Return(IF Truthy(v) THEN v ELSE Num(0))
      ELSE LET p == getProfile_part001(profileResp)
           IN  IF p.threw THEN p
               ELSE Return(IF p.val.defined THEN p.val.balance ELSE Num(0))

\* the accessor of the variant the engine was built from
callGetOrders(resp) ==
  IF variant = "main" THEN getOrders(resp) ELSE getOrders_part001(resp)
callGetChats(resp, authorLinks) ==
  IF variant = "main" THEN getChats(resp, authorLinks) ELSE getChats_part001(resp)
callGetBalance(resp, profileResp) ==
  IF variant = "main" THEN getBalance(resp) ELSE getBalance_part001(resp, profileResp)

\* ------------------------------------------------------------ the diff
MapSet(m, k, x) == [y \in DOMAIN m \cup {k} |-> IF y = k THEN x ELSE m[y]]
EmptyMap == [y \in {} |-> 0]

balanceEvents_noSentinel(stored, balance) ==
  IF StrictNeq(balance, stored)
  THEN <<[type |-> "balanceChange", old |-> stored, new |-> balance]>>
  ELSE <<>>

\* checkOnce, balance: the events of one balance read
balanceEvents(stored, balance) ==
  IF StrictNeq(stored, Num(0)) /\ StrictNeq(balance, stored)
  THEN <<[type |-> "balanceChange", old |-> stored, new |-> balance]>>
  ELSE <<>>

\* checkOnce, orders: the events of one order of the batch
orderEvents_anyField(o, orders) ==
  IF o.id \notin DOMAIN orders
  THEN <<[type |-> "newOrder", order |-> o]>>
  ELSE IF orders[o.id] # o
       THEN <<[type |-> "orderStatusChange", old |-> orders[o.id], new |-> o]>>
       ELSE <<>>

orderEvents_swapped(o, orders) ==
  IF o.id \notin DOMAIN orders
  THEN <<[type |-> "newOrder", order |-> o]>>
  ELSE IF orders[o.id].status # o.status
       THEN <<[type |-> "orderStatusChange", old |-> o, new |-> orders[o.id]]>>
       ELSE <<>>

orderEvents(o, orders) ==
  IF o.id \notin DOMAIN orders
  THEN <<[type |-> "newOrder", order |-> o]>>
  ELSE IF orders[o.id].status # o.status
       THEN <<[type |-> "orderStatusChange", old |-> orders[o.id], new |-> o]>>
       ELSE <<>>

orderStore_noSet(o, orders) == orders

orderStore_onlyBatch(o, orders) == [y \in {o.id} |-> o]

\* checkOnce, orders: the order stored after an element was diffed
orderStore(o, orders) == MapSet(orders, o.id, o)

RECURSIVE diffOrders(_, _, _)
diffOrders(batch, orders, evs) ==
  IF batch = <<>> THEN [map |-> orders, events |-> evs]
  ELSE diffOrders(Tail(batch), orderStore(Head(batch), orders),
                  evs \o orderEvents(Head(batch), orders))

RECURSIVE diffMessages_noRecord(_, _, _)
diffMessages_noRecord(batch, messages, evs) ==
  IF batch = <<>> THEN [map |-> messages, events |-> evs]
  ELSE LET m == Head(batch)
       IN  IF m.id \notin DOMAIN messages
           THEN diffMessages_noRecord(Tail(batch), messages,
                                      evs \o <<[type |-> "newMessage", message |-> m]>>)
           ELSE diffMessages_noRecord(Tail(batch), messages, evs)

\* checkOnce, messages: only an unseen id is emitted and stored
RECURSIVE diffMessages(_, _, _)
diffMessages(batch, messages, evs) ==
  IF batch = <<>> THEN [map |-> messages, events |-> evs]
  ELSE LET m == Head(batch)
       IN  IF m.id \notin DOMAIN messages
           THEN diffMessages(Tail(batch), MapSet(messages, m.id, m),
                             evs \o <<[type |-> "newMessage", message |-> m]>>)
           ELSE diffMessages(Tail(batch), messages, evs)

\* startPolling, bootstrap: forEach(set) over a batch
RECURSIVE seed(_, _)
seed(batch, map) ==
  IF batch = <<>> THEN map
  ELSE seed(Tail(batch), MapSet(map, Head(batch).id, Head(batch)))

\* how many newOrder events a sequence of events holds for an id
RECURSIVE CountNew(_, _)
CountNew(evs, id) ==
  IF evs = <<>> THEN 0
  ELSE (IF Head(evs).type = "newOrder" /\ Head(evs).order.id = id THEN 1 ELSE 0)
       + CountNew(Tail(evs), id)
Counted(evs) == [id \in OrderIds |-> newOrderCount[id] + CountNew(evs, id)]

\* ------------------------------------------------------------ the engine
\* The environment of a run: the responses the transport can give for the
\* orders page, the chat list and the balance page.  Every environment holds
\* a transport failure for every resource.
Env(orderPages, chatPages, balanceTexts, failures, intervalArgs) ==
  [orders |-> Responses(orderPages, failures),
   chats |-> Responses(chatPages, failures),
   balance |-> Responses(balanceTexts, failures),
   intervals |-> intervalArgs]
\* the second request of part_001's getBalance is made only when the first failed
ProfileResponses(env, rb) ==
  IF variant = "part001" /\ ~rb.ok THEN env.balance ELSE {rb}
\* the thread pages of main's getChats are requested only for a chat item
AuthorLinks(rc) ==
  IF variant = "main" /\ rc.ok /\ rc.page # <<>> THEN BOOLEAN ELSE {TRUE}

Init ==
  /\ variant \in Variants
  /\ polling = FALSE
  /\ lastOrders = EmptyMap
  /\ lastMessages = EmptyMap
  /\ lastBalance = Num(0)
  /\ errorListeners = FALSE
  /\ loops = [l \in LoopIds |-> NoLoop]
  /\ timers = {}
  /\ last = Call("new", 0)
  /\ newOrderCount = [id \in OrderIds |-> 0]

\* EventEmitter.emit('error', err) throws err when nobody listens
emitErrorThrows == ~errorListeners
ErrorEvent(err) == <<[type |-> "error", err |-> err]>>

alreadyPolling_never == FALSE

\* startPolling: the early return of an engine that is already polling
alreadyPolling == polling

\* while (this.polling): the next cycle starts with checkOnce's getBalance
loopHead(l, stored) ==
  IF polling THEN [loops EXCEPT ![l].pc = "balance", ![l].atStart = stored]
  ELSE [loops EXCEPT ![l].pc = "returned"]

\* the emit calls of a step publish change events
Changes(evs) == evs # <<>> /\ evs[1].type # "error"
\* history of the emit calls: a loop whose running cycle has published change
\* events is "open"; it is "cut" once another cycle has published after it
Published(ls, l, evs) ==
  IF ~Changes(evs) THEN ls
  ELSE [k \in LoopIds |->
          IF k = l
          THEN [ls[k] EXCEPT !.evt = IF ls[k].pc \in {"orders", "chats"}
                                     THEN "open" ELSE "none"]
          ELSE IF ls[k].evt = "open" THEN [ls[k] EXCEPT !.evt = "cut"]
               ELSE ls[k]]

\* await new Promise((r) => setTimeout(r, interval))
asleep(l) ==
  [loops EXCEPT ![l].pc = "sleep", ![l].atStart = Num(0), ![l].evt = "none"]
sleep(l) ==
  /\ loops' = asleep(l)
  /\ timers' = timers \cup {l}

\* the loop's catch: emit('error', err), then the sleep; the emit's own
\* throw leaves startPolling as a rejection
loopCatch(l, op, resp, ret) ==
  /\ last' = Step(op, l, resp, ret, ErrorEvent(ret.err))
  /\ IF emitErrorThrows
     THEN /\ loops' = [loops EXCEPT ![l].pc = "rejected", ![l].atStart = Num(0),
                                    ![l].evt = "none"]
          /\ timers' = timers
     ELSE sleep(l)
  /\ UNCHANGED <<lastOrders, lastMessages, lastBalance, newOrderCount>>

\* on('error', listener)
on ==
  /\ ~errorListeners
  /\ errorListeners' = TRUE
  /\ last' = Call("on", 0)
  /\ UNCHANGED <<variant, polling, lastOrders, lastMessages, lastBalance,
                 loops, timers, newOrderCount>>

\* startPolling(intervalMs), up to its first await
startPolling(intervalMs) ==
  /\ IF alreadyPolling
     THEN /\ last' = Call("startPolling", 0)
          /\ UNCHANGED <<polling, loops>>
     ELSE /\ Cardinality(Started) < MaxLoops
          /\ LET l == Cardinality(Started) + 1
                 interval == IF intervalMs = 0 THEN DefaultPollingIntervalMs
                             ELSE intervalMs
             IN  /\ polling' = TRUE
                 /\ loops' = [loops EXCEPT ![l] = [pc |-> "boot", interval |-> interval,
                                                 atStart |-> Num(0), evt |-> "none"]]
                 /\ last' = Call("startPolling", l)
  /\ UNCHANGED <<variant, lastOrders, lastMessages, lastBalance,
                 errorListeners, timers, newOrderCount>>

\* stopPolling()
stopPolling ==
  /\ polling' = FALSE
  /\ last' = Call("stopPolling", 0)
  /\ UNCHANGED <<variant, lastOrders, lastMessages, lastBalance,
                 errorListeners, loops, timers, newOrderCount>>

\* startPolling, the bootstrap: Promise.all settles, the snapshot is seeded
\* or the catch runs, and the loop is entered
startPolling_init(l, env) ==
  /\ loops[l].pc = "boot"
  /\ \E ro \in env.orders, rc \in env.chats, rb \in env.balance :
     \E authorLinks \in AuthorLinks(rc), rp \in ProfileResponses(env, rb) :
     LET o == callGetOrders(ro)
         c == callGetChats(rc, authorLinks)
         b == callGetBalance(rb, rp)
         thrown == (IF o.threw THEN {o.err} ELSE {})
                   \cup (IF c.threw THEN {c.err} ELSE {})
                   \cup (IF b.threw THEN {b.err} ELSE {})
     IN  IF thrown = {}
         THEN /\ lastOrders' = seed(o.val, lastOrders)
              /\ lastMessages' = seed(c.val, lastMessages)
              /\ lastBalance' = b.val
              /\ last' = Step("init", l, NoFetch,
                             Return([orders |-> o.val, chats |-> c.val,
                                     balance |-> b.val]), <<>>)
              /\ loops' = loopHead(l, b.val)
         ELSE /\ UNCHANGED <<lastOrders, lastMessages, lastBalance>>
              /\ IF variant = "main"
                 THEN \E e \in thrown :
                        /\ last' = Step("init", l, NoFetch, Throw(e), ErrorEvent(e))
                        /\ loops' = IF emitErrorThrows
                                    THEN [loops EXCEPT ![l].pc = "rejected"]
                                    ELSE loopHead(l, lastBalance)
                 ELSE \E e \in thrown :
                        /\ last' = Step("init", l, NoFetch, Throw(e), <<>>)
                        /\ loops' = loopHead(l, lastBalance)
  /\ UNCHANGED <<variant, polling, errorListeners, timers, newOrderCount>>

\* checkOnce: getBalance settles
checkOnce_balance(l, env) ==
  /\ loops[l].pc = "balance"
  /\ \E rb \in env.balance : \E rp \in ProfileResponses(env, rb) :
     LET b == callGetBalance(rb, rp)
     IN  IF b.threw THEN loopCatch(l, "balance", rb, b)
         ELSE /\ last' = Step("balance", l, rb, b, balanceEvents(lastBalance, b.val))
              /\ lastBalance' = b.val
              /\ loops' = Published([loops EXCEPT ![l].pc = "orders",
                                                 ![l].atStart = Num(0)],
                                    l, balanceEvents(lastBalance, b.val))
              /\ UNCHANGED <<lastOrders, lastMessages, timers, newOrderCount>>
  /\ UNCHANGED <<variant, polling, errorListeners>>

\* checkOnce: getOrders settles
checkOnce_orders(l, env) ==
  /\ loops[l].pc = "orders"
  /\ \E ro \in env.orders :
     LET o == callGetOrders(ro)
     IN  IF o.threw THEN loopCatch(l, "orders", ro, o)
         ELSE LET d == diffOrders(o.val, lastOrders, <<>>)
              IN  /\ last' = Step("orders", l, ro, o, d.events)
                  /\ lastOrders' = d.map
                  /\ newOrderCount' = Counted(d.events)
                  /\ loops' = Published([loops EXCEPT ![l].pc = "chats"], l, d.events)
                  /\ UNCHANGED <<lastMessages, lastBalance, timers>>
  /\ UNCHANGED <<variant, polling, errorListeners>>

\* checkOnce: getChats settles; checkOnce returns and the loop sleeps
checkOnce_messages(l, env) ==
  /\ loops[l].pc = "chats"
  /\ \E rc \in env.chats : \E authorLinks \in AuthorLinks(rc) :
     LET c == callGetChats(rc, authorLinks)
     IN  IF c.threw THEN loopCatch(l, "chats", rc, c)
         ELSE LET d == diffMessages(c.val, lastMessages, <<>>)
              IN  /\ last' = Step("chats", l, rc, c, d.events)
                  /\ lastMessages' = d.map
                  /\ loops' = Published(asleep(l), l, d.events)
                  /\ timers' = timers \cup {l}
                  /\ UNCHANGED <<lastOrders, lastBalance, newOrderCount>>
  /\ UNCHANGED <<variant, polling, errorListeners>>

\* the sleep's timer fires and the while condition is read again
timer(l) ==
  /\ l \in timers
  /\ loops[l].pc = "sleep"
  /\ timers' = timers \ {l}
  /\ loops' = loopHead(l, lastBalance)
  /\ last' = Call("timer", l)
  /\ UNCHANGED <<variant, polling, lastOrders, lastMessages, lastBalance,
                 errorListeners, newOrderCount>>

Next(env) ==
  \/ on
  \/ \E i \in env.intervals : startPolling(i)
  \/ stopPolling
  \/ \E l \in LoopIds : startPolling_init(l, env)
  \/ \E l \in LoopIds : checkOnce_balance(l, env)
  \/ \E l \in LoopIds : checkOnce_orders(l, env)
  \/ \E l \in LoopIds : checkOnce_messages(l, env)
  \/ \E l \in LoopIds : timer(l)

\* few pages of every resource: the scheduling of start, stop and the loops
FewOrderPages == {<<>>, <<[id |-> "1", status |-> "new", price |-> 10]>>}
FewChatPages == {<<>>, <<[id |-> 1, date |-> "d1"]>>}
FewBalanceTexts == {"", "100"}
SchedEnv == Env(FewOrderPages, FewChatPages, FewBalanceTexts, FetchFailures, {0})
NextSched == Next(SchedEnv)
Spec == Init /\ [][NextSched]_vars

\* empty pages and one balance, every interval argument
IntervalEnv == Env({<<>>}, {<<>>}, {"100"}, {"network"}, IntervalArgs)
NextInterval == Next(IntervalEnv)
SpecInterval == Init /\ [][NextInterval]_vars

\* every orders page, an empty chat list, one balance
OrdersEnv == Env(OrderPages, {<<>>}, {"100"}, {"network"}, {0})
NextOrders == Next(OrdersEnv)
SpecOrders == Init /\ [][NextOrders]_vars

\* every chat list, few orders pages, one balance
ChatsEnv == Env(FewOrderPages, ChatPages, {"100"}, {"network"}, {0})
NextChats == Next(ChatsEnv)
SpecChats == Init /\ [][NextChats]_vars

\* every balance text, empty orders and chat pages
BalanceEnv == Env({<<>>}, {<<>>}, BalanceTexts, {"network"}, {0})
NextBalance == Next(BalanceEnv)
SpecBalance == Init /\ [][NextBalance]_vars

\* every fetch settles and every sleep timer fires: the steps of a started
\* loop are taken as long as they stay enabled; the calls of the application
\* (on, startPolling, stopPolling) are under no obligation
LiveEnv == Env({<<>>}, {<<>>}, {"100"}, {"network"}, {0})
NextLive == Next(LiveEnv)
Fairness ==
  \A l \in LoopIds :
    /\ WF_vars(startPolling_init(l, LiveEnv))
    /\ WF_vars(checkOnce_balance(l, LiveEnv))
    /\ WF_vars(checkOnce_orders(l, LiveEnv))
    /\ WF_vars(checkOnce_messages(l, LiveEnv))
    /\ WF_vars(timer(l))
SpecLive == Init /\ [][NextLive]_vars /\ Fairness

TypeOK ==
  /\ variant \in Variants
  /\ polling \in BOOLEAN
  /\ errorListeners \in BOOLEAN
  /\ DOMAIN lastOrders \subseteq OrderIds
  /\ \A id \in DOMAIN lastOrders : lastOrders[id] \in IOrder /\ lastOrders[id].id = id
  /\ DOMAIN lastMessages \subseteq ChatIds
  /\ \A id \in DOMAIN lastMessages : lastMessages[id] \in IChat
  /\ lastBalance \in {NaN} \cup {Num(n) : n \in {0, 100, 200}}
  /\ timers = {l \in LoopIds : loops[l].pc = "sleep"}
  /\ \A l \in LoopIds : l \in Started => \A k \in 1..l : k \in Started

\* ---------------------------------------------------------------- claims
\* the events of the latest step, as a set of positions
Positions == DOMAIN last.events
EventTypes == {last.events[i].type : i \in Positions}
\* the await of loop l at pc settled: the step ran the code that follows it
Settled(l, pc) == loops[l].pc = pc /\ loops'[l].pc # pc

\* C1: in a steady-state cycle a transport failure of the orders fetch emits
\* an error event that names the orders resource, leaves the stored orders
\* as they were, and the cycle goes on to fetch the chats.
C1_OrdersFailureIsolated ==
  [][\A l \in LoopIds :
       (Settled(l, "orders") /\ ~last'.resp.ok) =>
         /\ \E i \in DOMAIN last'.events :
              /\ last'.events[i].type = "error"
              /\ last'.events[i].err.url = "/orders/trade"
         /\ lastOrders' = lastOrders
         /\ loops'[l].pc = "chats"]_vars

\* C2: over the lifetime of an engine, whatever the batches and the
\* start/stop calls, emit('newOrder') is called at most once per order id.
C2_NewOrderAtMostOnce == \A id \in OrderIds : newOrderCount[id] <= 1

\* an order announced in an earlier cycle is fetched again, after a restart
C2_Witness ==
  /\ last.op = "orders" /\ last.resp.ok
  /\ \E i \in DOMAIN last.resp.page : last.resp.page[i].id = "1"
  /\ "newOrder" \notin EventTypes
  /\ newOrderCount["1"] = 1
  /\ Cardinality(Started) = MaxLoops

\* C3: at most one polling loop is active at any time.
C3_SingleLoop == Cardinality(Active) <= 1

\* C4: no fetch or extraction error ends a loop or reaches the caller of
\* startPolling, with or without an error listener: no startPolling call
\* ends as a rejection.
C4_NoErrorEndsLoop == \A l \in LoopIds : loops[l].pc # "rejected"

\* C5: the sleep is cancelable: once stopPolling() was called, no loop is
\* left asleep with its poll-interval timer still to expire.
C5_SleepCancelled ==
  \A l \in LoopIds : (loops[l].pc = "sleep" /\ ~polling) => l \notin timers

\* C6: startPolling() on an engine that is polling starts no loop, fetches
\* nothing, and leaves the snapshot, the flag and every loop's interval alone.
C6_StartWhilePollingNoOp ==
  [][(last'.op = "startPolling" /\ polling) =>
       UNCHANGED <<polling, loops, timers, lastOrders, lastMessages,
                   lastBalance, newOrderCount>>]_vars

\* startPolling was called, with another interval, while a loop was running
C6_Witness ==
  /\ last.op = "startPolling" /\ last.loop = 0
  /\ polling
  /\ \E l \in LoopIds : loops[l].pc = "sleep" /\ loops[l].interval = 5000

\* C7: the bootstrap emits no event, whatever it fetched and whichever of
\* its fetches failed, and the engine goes on to its cycles.
C7_BootstrapSilent ==
  last.op = "init" => (last.events = <<>> /\ loops[last.loop].pc # "rejected")

\* C8: the bootstrap runs once per engine: the startPolling that follows a
\* stopPolling does not seed the snapshot again.
C8_BootstrapOnce ==
  [][\A l \in LoopIds :
       (l > 1 /\ Settled(l, "boot")) =>
         UNCHANGED <<lastOrders, lastMessages, lastBalance>>]_vars

\* the record stored under the id of batch[k] when batch[k] is diffed: the
\* latest earlier element of the batch with that id, else the snapshot's
StoredBefore(batch, k, snapshot) ==
  LET earlier == {j \in 1..(k - 1) : batch[j].id = batch[k].id}
  IN  IF earlier # {}
      THEN {batch[CHOOSE j \in earlier : \A i \in earlier : i <= j]}
      ELSE IF batch[k].id \in DOMAIN snapshot THEN {snapshot[batch[k].id]} ELSE {}

\* C9: an order of the batch whose id is in the snapshot with the same
\* status produces no orderStatusChange, whatever its other fields; every
\* orderStatusChange tells of two different statuses.
C9_UnchangedStatusSilent ==
  [][\A l \in LoopIds :
       (Settled(l, "orders") /\ ~last'.ret.threw) =>
         LET batch == last'.ret.val
             evs == last'.events
         IN  /\ \A k \in DOMAIN batch :
                  \A prev \in StoredBefore(batch, k, lastOrders) :
                    prev.status = batch[k].status =>
                      ~\E i \in DOMAIN evs :
                          /\ evs[i].type = "orderStatusChange"
                          /\ evs[i].old = prev /\ evs[i].new = batch[k]
             /\ \A i \in DOMAIN evs :
                  evs[i].type = "orderStatusChange" =>
                    /\ evs[i].old.status # evs[i].new.status
                    /\ evs[i].old.id = evs[i].new.id]_vars

\* a known order comes back with its status and another price: no event
C9_Witness ==
  /\ last.op = "orders" /\ ~last.ret.threw
  /\ last.ret.val = <<[id |-> "1", status |-> "new", price |-> 10],
                      [id |-> "1", status |-> "new", price |-> 20]>>
  /\ last.events = <<>>
  /\ lastOrders["1"].price = 20

\* C10: a cycle that starts with a stored balance of 0 emits no
\* balanceChange, whatever non-zero balance it reads.
C10_SentinelSilent ==
  [][\A l \in LoopIds :
       (/\ Settled(l, "balance") /\ ~last'.ret.threw
        /\ loops[l].atStart = Num(0)
        /\ StrictNeq(last'.ret.val, Num(0))) =>
         \A i \in DOMAIN last'.events : last'.events[i].type # "balanceChange"]_vars

\* the ids of the records of a batch
Ids(batch) == {batch[k].id : k \in DOMAIN batch}
\* the ids the events of a step are about
EventOrderIds(evs) ==
  {evs[i].order.id : i \in {j \in DOMAIN evs : evs[j].type = "newOrder"}}
  \cup {evs[i].new.id : i \in {j \in DOMAIN evs : evs[j].type = "orderStatusChange"}}

\* C11: an order id of the snapshot that is absent from a fetched batch (an
\* empty batch included) keeps its stored record and gets no event in that
\* cycle; no step ever removes an order id from the snapshot.
C11_AbsentOrderKept ==
  [][/\ DOMAIN lastOrders \subseteq DOMAIN lastOrders'
     /\ \A l \in LoopIds :
          (Settled(l, "orders") /\ ~last'.ret.threw) =>
            \A id \in DOMAIN lastOrders \ Ids(last'.ret.val) :
              /\ lastOrders'[id] = lastOrders[id]
              /\ id \notin EventOrderIds(last'.events)]_vars

\* a batch without order "1" was diffed while "1" was stored, and announced "2"
C11_Witness ==
  /\ last.op = "orders" /\ last.resp.ok /\ ~last.ret.threw
  /\ Ids(last.ret.val) = {"2"}
  /\ EventOrderIds(last.events) = {"2"}
  /\ "1" \in DOMAIN lastOrders

\* the orders of the scenario
Order1New == [id |-> "1", status |-> "new", price |-> 10]
Order1Paid == [id |-> "1", status |-> "paid", price |-> 10]
Order2New == [id |-> "2", status |-> "new", price |-> 10]

\* C12: a bootstrap of a fresh engine that reads orders [1 new] and balance
\* 100 emits nothing and stores order 1 and balance 100; the next cycle, which
\* reads the same balance, known chats and orders [1 paid], emits exactly one
\* orderStatusChange from new to paid; the cycle after it, which reads orders
\* [1 paid, 2 new], emits exactly one newOrder for order 2; nothing else is
\* emitted.
C12_ScenarioTrace ==
  [][\A l \in LoopIds :
       /\ (/\ Settled(l, "boot") /\ ~last'.ret.threw
           /\ lastOrders = EmptyMap /\ lastMessages = EmptyMap
           /\ last'.ret.val.orders = <<Order1New>>
           /\ last'.ret.val.balance = Num(100))
          => /\ last'.events = <<>>
             /\ lastOrders' = ("1" :> Order1New)
             /\ lastBalance' = Num(100)
       /\ (/\ Settled(l, "balance") /\ ~last'.ret.threw
           /\ lastBalance = Num(100) /\ last'.ret.val = Num(100))
          => last'.events = <<>> /\ lastBalance' = Num(100)
       /\ (/\ Settled(l, "orders") /\ ~last'.ret.threw
           /\ lastOrders = ("1" :> Order1New)
           /\ last'.ret.val = <<Order1Paid>>)
          => /\ last'.events = <<[type |-> "orderStatusChange",
                                  old |-> Order1New, new |-> Order1Paid]>>
             /\ lastOrders' = ("1" :> Order1Paid)
       /\ (/\ Settled(l, "orders") /\ ~last'.ret.threw
           /\ lastOrders = ("1" :> Order1Paid)
           /\ last'.ret.val = <<Order1Paid, Order2New>>)
          => /\ last'.events = <<[type |-> "newOrder", order |-> Order2New]>>
             /\ lastOrders' = ("1" :> Order1Paid) @@ ("2" :> Order2New)
       /\ (/\ Settled(l, "chats") /\ ~last'.ret.threw
           /\ Ids(last'.ret.val) \subseteq DOMAIN lastMessages)
          => last'.events = <<>> /\ lastMessages' = lastMessages]_vars

\* the third step of the scenario ran in an engine with one loop: order 1 was
\* seeded by the bootstrap and never announced, order 2 was announced once
C12_Witness ==
  /\ Cardinality(Started) = 1
  /\ last.op = "orders" /\ ~last.ret.threw
  /\ last.ret.val = <<Order1Paid, Order2New>>
  /\ last.events = <<[type |-> "newOrder", order |-> Order2New]>>
  /\ lastOrders = ("1" :> Order1Paid) @@ ("2" :> Order2New)
  /\ lastBalance = Num(100)
  /\ newOrderCount = [id \in OrderIds |-> IF id = "2" THEN 1 ELSE 0]

\* the record an event is about
Subject(e) ==
  IF e.type = "newOrder" THEN e.order
  ELSE IF e.type = "orderStatusChange" THEN e.new
  ELSE e.message
\* the events are about records of the batch, in the order of the batch
RECURSIVE InBatchOrder(_, _)
InBatchOrder(evs, batch) ==
  IF evs = <<>> THEN TRUE
  ELSE IF batch = <<>> THEN FALSE
  ELSE IF Subject(Head(evs)) = Head(batch)
       THEN InBatchOrder(Tail(evs), Tail(batch))
       ELSE InBatchOrder(evs, Tail(batch))

\* C13: a cycle publishes its balance event, then its order events in batch
\* order, then its message events in batch order, and once another cycle has
\* published change events a cycle publishes none any more: the events of two
\* cycles never interleave, whatever start and stop calls are made.
C13_CyclesDoNotInterleave ==
  [][\A l \in LoopIds :
       /\ Settled(l, "balance") =>
            /\ loops'[l].pc \in {"orders", "sleep", "rejected"}
            /\ EventTypes' \subseteq {"balanceChange", "error"}
       /\ Settled(l, "orders") =>
            /\ loops'[l].pc \in {"chats", "sleep", "rejected"}
            /\ EventTypes' \subseteq {"newOrder", "orderStatusChange", "error"}
            /\ Changes(last'.events) => InBatchOrder(last'.events, last'.ret.val)
       /\ Settled(l, "chats") =>
            /\ loops'[l].pc \in {"sleep", "rejected"}
            /\ EventTypes' \subseteq {"newMessage", "error"}
            /\ Changes(last'.events) => InBatchOrder(last'.events, last'.ret.val)
       /\ (last'.loop = l /\ Changes(last'.events)) => loops[l].evt # "cut"]_vars

\* the record a batch delivers for an id: its last element with that id
LatestIn(batch, id) ==
  batch[CHOOSE k \in DOMAIN batch :
          /\ batch[k].id = id
          /\ \A j \in DOMAIN batch : batch[j].id = id => j <= k]
\* the snapshot holds, for every id of the batch, the record the batch delivered
HoldsLatest(snapshot, batch) ==
  \A id \in Ids(batch) : id \in DOMAIN snapshot /\ snapshot[id] = LatestIn(batch, id)

\* every id is named once in the batch
NoRepeats(batch) == \A j, k \in DOMAIN batch : batch[j].id = batch[k].id => j = k

\* C14: once a cycle has diffed a fetched batch, the snapshot holds for every
\* order id and every chat id of the batch the record that was fetched,
\* whether or not an event was emitted for it, and the records of the other
\* keys are the ones stored before.  Stated for batches that name every id
\* once.
C14_FetchedRecordStored ==
  [][\A l \in LoopIds :
       /\ (Settled(l, "orders") /\ ~last'.ret.threw /\ NoRepeats(last'.ret.val)) =>
            /\ HoldsLatest(lastOrders', last'.ret.val)
            /\ \A id \in DOMAIN lastOrders \ Ids(last'.ret.val) :
                 lastOrders'[id] = lastOrders[id]
       /\ (Settled(l, "chats") /\ ~last'.ret.threw /\ NoRepeats(last'.ret.val)) =>
            /\ HoldsLatest(lastMessages', last'.ret.val)
            /\ \A id \in DOMAIN lastMessages \ Ids(last'.ret.val) :
                 lastMessages'[id] = lastMessages[id]]_vars

\* the positions of the newMessage events of a step, and their ids
MessagePositions(evs) == {i \in DOMAIN evs : evs[i].type = "newMessage"}
EventMessageIds(evs) == {evs[i].message.id : i \in MessagePositions(evs)}

\* C15: a cycle emits newMessage for exactly the ids of the fetched chat list
\* that are not in the stored message set, once each, and stores them in the
\* same step; no step emits newMessage for a stored id and no step removes an
\* id from the set, so a stored id is never emitted again.
C15_NewMessageOncePerId ==
  [][/\ DOMAIN lastMessages \subseteq DOMAIN lastMessages'
     /\ EventMessageIds(last'.events) \cap DOMAIN lastMessages = {}
     /\ \A l \in LoopIds :
          (Settled(l, "chats") /\ ~last'.ret.threw) =>
            /\ EventMessageIds(last'.events) = Ids(last'.ret.val) \ DOMAIN lastMessages
            /\ \A i, j \in MessagePositions(last'.events) :
                 last'.events[i].message.id = last'.events[j].message.id => i = j
            /\ DOMAIN lastMessages' = DOMAIN lastMessages \cup Ids(last'.ret.val)]_vars

\* a chat list with a stored and an unseen id was diffed: one newMessage
C15_Witness ==
  /\ last.op = "chats" /\ ~last.ret.threw
  /\ Ids(last.ret.val) = {1, 2}
  /\ EventMessageIds(last.events) = {2}
  /\ DOMAIN lastMessages = {1, 2}

\* C16: when the balance fetch (or the orders fetch) of a cycle settles after
\* stopPolling() was called during it, the loop does not go on to fetch the
\* next resource of that cycle.  polling is true when a cycle begins, so it is
\* false at the settle only if stopPolling() was called while the fetch was
\* in flight.
C16_StopSeenBetweenFetches ==
  [][\A l \in LoopIds :
       ~polling =>
         /\ Settled(l, "balance") => loops'[l].pc # "orders"
         /\ Settled(l, "orders") => loops'[l].pc # "chats"]_vars

\* C17: whenever stopPolling() is called while loop l is running, loop l
\* eventually terminates (its startPolling call settles), given that every
\* fetch settles and every timer fires, whatever calls are made afterwards.
C17_StopTerminatesLoop ==
  \A l \in LoopIds :
    [](((last.op = "stopPolling") /\ (l \in Active))
         => <>(loops[l].pc \in {"returned", "rejected"}))

\* C18: a steady-state cycle whose getBalance returns a number emits one
\* balanceChange {old: the stored balance, new: the number read} if the stored
\* balance is not zero and differs from the number read, and emits nothing
\* otherwise; in both cases the stored balance is the number read afterwards.
C18_BalanceDiff ==
  [][\A l \in LoopIds :
       (Settled(l, "balance") /\ ~last'.ret.threw /\ ~last'.ret.val.isNaN) =>
         /\ last'.events =
              IF lastBalance # Num(0) /\ last'.ret.val # lastBalance
              THEN <<[type |-> "balanceChange", old |-> lastBalance,
                      new |-> last'.ret.val]>>
              ELSE <<>>
         /\ lastBalance' = last'.ret.val]_vars

\* a cycle read 200 over a stored 100 and published the change
C18_Witness ==
  /\ last.op = "balance" /\ ~last.ret.threw
  /\ last.ret.val = Num(200)
  /\ last.events = <<[type |-> "balanceChange", old |-> Num(100), new |-> Num(200)]>>
  /\ lastBalance = Num(200)

\* the balance read of the latest step failed: the transport failed and no
\* other page gave a balance, or the page held no number
BalanceReadFailed(step) ==
  \/ ~step.resp.ok /\ (variant = "main" \/ step.ret.threw)
  \/ step.resp.ok /\ parseFloat(step.resp.page).isNaN

\* C19: a steady-state cycle whose balance read fails (a transport error or
\* an unparseable page) emits no balanceChange and leaves the stored balance
\* as it was.
C19_FailedReadKeepsBalance ==
  [][\A l \in LoopIds :
       (Settled(l, "balance") /\ BalanceReadFailed(last')) =>
         /\ "balanceChange" \notin EventTypes'
         /\ lastBalance' = lastBalance]_vars

\* C20: in every reachable state where no loop is active (none was started,
\* or every started loop has returned or ended otherwise) polling is false,
\* so that the next startPolling() starts a loop.
C20_PollingTracksLoop == (Active = {}) => ~polling

====
